---- MODULE Spec2Model ----
(***************************************************************************)
(* Model of the DEF netlist tools.                                         *)
(*                                                                         *)
(*   loc2def.py        save_locations_to_def : streams a DEF file and      *)
(*                     rewrites UNPLACED markers with supplied positions.   *)
(*   netlist2graph.py  parse_def_file, write_hypergraph, write_vertex_info *)
(*                     run in the order main() calls them.                 *)
(*                                                                         *)
(* Text is modelled at the level the code looks at it: a DEF line is a     *)
(* sequence of tokens, a section is a sequence of ';'-terminated entries.  *)
(* The source and the destination of the injection are different files.    *)
(***************************************************************************)
EXTENDS Integers, Sequences, FiniteSets

(***************************************************************************)
(* Bounds of the model.                                                    *)
(***************************************************************************)
MaxLines == 2
MaxLineLen == 2
MaxPos == 2
MaxComps == 2
MaxPins == 2
MaxEntries == 4
MaxDecl == 2

(***************************************************************************)
(* Generic helpers.                                                        *)
(***************************************************************************)
SeqsUpTo(S, n) == UNION {[1..k -> S] : k \in 0..n}

Min(a, b) == IF a < b THEN a ELSE b

NonEmptySeqsUpTo(S, n) == UNION {[1..k -> S] : k \in 1..n}

(***************************************************************************)
(*                       loc2def.py : the injector                         *)
(***************************************************************************)

\* A token of a DEF line.  Plain text carries only its word; the clause the
\* injector writes carries the two integers it formatted and the orientation.
Tok(word) == [w |-> word, x |-> 0, y |-> 0, o |-> ""]

UNPLACED == Tok("UNPLACED")

\* int(v) of a float: truncation toward zero.  Floats are modelled in halves,
\* so h stands for the float h/2.
IntOfFloat(h) == IF h >= 0 THEN h \div 2 ELSE -((-h) \div 2)

\* f"PLACED ( {int(x)} {int(y)} ) N"
PlacedClause(x, y) ==
    [w |-> "PLACED", x |-> IntOfFloat(x), y |-> IntOfFloat(y), o |-> "N"]

\* "UNPLACED" in line
ContainsUnplaced(line) == \E i \in 1..Len(line) : line[i] = UNPLACED

\* A replace without the count argument: every occurrence.
ReplaceAll(line, clause) ==
    [i \in 1..Len(line) |-> IF line[i] = UNPLACED THEN clause ELSE line[i]]

\* line.replace("UNPLACED", clause, 1): only the first occurrence.
ReplaceFirst(line, clause) ==
    IF ~ContainsUnplaced(line) THEN line
    ELSE LET i == CHOOSE k \in 1..Len(line) :
                      /\ line[k] = UNPLACED
                      /\ \A j \in 1..(k - 1) : line[j] # UNPLACED
         IN  [line EXCEPT ![i] = clause]

\* suffix.lower()
Lower(suffix) == IF suffix = ".DEF" THEN ".def" ELSE suffix

\* out_path.with_suffix(".def") unless the suffix already is .def in any case
NormalizePath(p) ==
    IF Lower(p.suffix) # ".def" THEN [p EXCEPT !.suffix = ".def"] ELSE p

Words == {"a", "UNPLACED"}

Lines == NonEmptySeqsUpTo({Tok(word) : word \in Words}, MaxLineLen)

\* Floats in halves: (10.5, 20.0) and (-1.5, 3.5)
Pairs == {<<21, 40>>, <<-3, 7>>}

Suffixes == {"", ".DEF", ".txt"}

NoFile == [exists |-> FALSE, lines |-> <<>>]

OldFile == [exists |-> TRUE, lines |-> << <<Tok("old")>> >>]

VARIABLES
    ipc,        \* position inside save_locations_to_def
    src,        \* the lines of the source DEF
    positions,  \* the caller's position sequence
    out_path,   \* the destination path
    outFile0,   \* the file at the normalized destination before the call
    outFile,    \* the file at the normalized destination
    line_no,    \* number of source lines read by the for loop
    pos_iter,   \* number of pairs next(pos_iter) has returned
    warned      \* the surplus warning was logged

ivars == <<ipc, src, positions, out_path, outFile0, outFile, line_no, pos_iter, warned>>

VARIABLES
    ppc,                 \* position inside main() of netlist2graph.py
    info,                \* the DEF text handed to parse_def_file
    graph_data,          \* the fields of GraphData as the parse fills them
    cell_name_to_index,  \* the name index, a dict in insertion order
    perr,                \* the exception that ended the parse, if any
    hypergraph,          \* hypergraph.txt
    vertex_info          \* vertex_info.txt

pvars == <<ppc, info, graph_data, cell_name_to_index, perr, hypergraph, vertex_info>>

vars == <<ivars, pvars>>

EmptyGraph ==
    [total_cell_number |-> 0, total_io_number |-> 0, fixed_node_num |-> 0,
     fixed_id |-> <<>>, fixed_pos |-> <<>>, movable_id |-> <<>>,
     io_id |-> <<>>, io_pos |-> <<>>, net_cell_index |-> <<>>]

NoInfo ==
    [has_nets |-> FALSE, decl_cells |-> 0, comps |-> <<>>,
     decl_ios |-> 0, pins |-> <<>>, nets |-> <<>>]

NotWritten == [written |-> FALSE, header |-> <<>>, rows |-> <<>>]

ParseIdle ==
    /\ ppc = "idle"
    /\ info = NoInfo
    /\ graph_data = EmptyGraph
    /\ cell_name_to_index = <<>>
    /\ perr = "none"
    /\ hypergraph = NotWritten
    /\ vertex_info = NotWritten

InitInject ==
    /\ ipc = "start"
    /\ src \in SeqsUpTo(Lines, MaxLines)
    /\ positions \in SeqsUpTo(Pairs, MaxPos)
    /\ out_path \in {[stem |-> "out", suffix |-> s] : s \in Suffixes}
    /\ outFile0 \in {NoFile, OldFile}
    /\ outFile = outFile0
    /\ line_no = 0
    /\ pos_iter = 0
    /\ warned = FALSE
    /\ ParseIdle

\* Lines 33-38: normalize the suffix, make the iterator, open both files.
\* Opening the destination with "w" creates it or truncates it.
OpenFiles ==
    /\ ipc = "start"
    /\ out_path' = NormalizePath(out_path)
    /\ outFile' = [exists |-> TRUE, lines |-> <<>>]
    /\ ipc' = "loop"
    /\ UNCHANGED <<src, positions, outFile0, line_no, pos_iter, warned>>
    /\ UNCHANGED pvars

\* Lines 39-51, one iteration on a line that takes a pair.
InjectLine ==
    /\ ipc = "loop"
    /\ line_no < Len(src)
    /\ ContainsUnplaced(src[line_no + 1])
    /\ pos_iter < Len(positions)
    /\ LET line == src[line_no + 1]
           pair == positions[pos_iter + 1]
       IN  outFile' = [outFile EXCEPT !.lines =
                          Append(@, ReplaceFirst(line, PlacedClause(pair[1], pair[2])))]
    /\ pos_iter' = pos_iter + 1
    /\ line_no' = line_no + 1
    /\ UNCHANGED <<ipc, src, positions, out_path, outFile0, warned>>
    /\ UNCHANGED pvars

\* Lines 39-40, 51: a line without the marker is copied.
CopyLine ==
    /\ ipc = "loop"
    /\ line_no < Len(src)
    /\ ~ContainsUnplaced(src[line_no + 1])
    /\ outFile' = [outFile EXCEPT !.lines = Append(@, src[line_no + 1])]
    /\ line_no' = line_no + 1
    /\ UNCHANGED <<ipc, src, positions, out_path, outFile0, pos_iter, warned>>
    /\ UNCHANGED pvars

\* Lines 41-46: the iterator is exhausted on a matching line; ValueError
\* leaves the with block, which closes both files with what was written.
RaiseExhausted ==
    /\ ipc = "loop"
    /\ line_no < Len(src)
    /\ ContainsUnplaced(src[line_no + 1])
    /\ pos_iter >= Len(positions)
    /\ ipc' = "raised"
    /\ UNCHANGED <<src, positions, out_path, outFile0, outFile, line_no, pos_iter, warned>>
    /\ UNCHANGED pvars

\* Lines 53-60: the source is read to its end; surplus pairs only warn.
CheckExtra ==
    /\ ipc = "loop"
    /\ line_no = Len(src)
    /\ warned' = (pos_iter < Len(positions))
    /\ pos_iter' = IF pos_iter < Len(positions) THEN pos_iter + 1 ELSE pos_iter
    /\ ipc' = "done"
    /\ UNCHANGED <<src, positions, out_path, outFile0, outFile, line_no>>
    /\ UNCHANGED pvars

NextInject ==
    \/ OpenFiles
    \/ InjectLine
    \/ CopyLine
    \/ RaiseExhausted
    \/ CheckExtra

SpecInject == InitInject /\ [][NextInject]_vars

(***************************************************************************)
(*                   netlist2graph.py : parser and writers                 *)
(***************************************************************************)

\* re.search found no name in an entry.
NoName == ""

\* The net the parser drops (line 125).
ExcludedNet == "clk_i"

CellNames == {"U0", "U1"}

PinNames == {"P0", "P1"}

NetNames == {"n1", ExcludedNet, NoName}

FixedPositions == {<<100, 200>>, <<300, 400>>}

PinPositions == {<<5, 5>>, <<7, 9>>}

\* A COMPONENTS entry: "- name ... [FIXED ( x y ) N]"; a malformed one has
\* no "- name".
CompEntries ==
    {[name |-> n, fixed |-> FALSE, pos |-> <<0, 0>>] : n \in CellNames \cup {NoName}}
    \cup {[name |-> n, fixed |-> TRUE, pos |-> q] : n \in CellNames, q \in FixedPositions}

\* A PINS entry: "- name + NET ... / + PLACED ( x y ) N"
PinEntries == {[name |-> n, pos |-> q] : n \in PinNames, q \in PinPositions}

\* A "( A B )" connection of a net record.
Connections == {<<"U0", "A">>, <<"U1", "A">>, <<"PIN", "P0">>, <<"PIN", "P1">>}

\* NETS records with at most b connections.
NetRecs(b) == {[name |-> n, conns |-> c] : n \in NetNames, c \in SeqsUpTo(Connections, b)}

\* Sequences of NETS records holding at most b records and connections.
RECURSIVE NetSeqs(_)
NetSeqs(b) ==
    IF b <= 0 THEN {<<>>}
    ELSE {<<>>} \cup
         UNION {{<<r>> \o rest : rest \in NetSeqs(b - 1 - Len(r.conns))} : r \in NetRecs(b - 1)}

\* The header entry every section starts with ("COMPONENTS n", "PINS n",
\* "NETS n"): it has no "- name" and no connection.
CompHeader == [name |-> NoName, fixed |-> FALSE, pos |-> <<0, 0>>]

PinHeader == [name |-> NoName, pos |-> <<0, 0>>]

NetsHeader == [name |-> NoName, conns |-> <<>>]

----------------------------------------------------------------------------
\* The name index is a Python dict: pairs <<key, value>> in insertion order,
\* an assignment to a present key replaces the value in place.

DictHas(d, k) == \E i \in 1..Len(d) : d[i][1] = k

DictGet(d, k) == d[CHOOSE i \in 1..Len(d) : d[i][1] = k][2]

DictSet(d, k, v) ==
    IF DictHas(d, k)
    THEN [i \in 1..Len(d) |-> IF d[i][1] = k THEN <<k, v>> ELSE d[i]]
    ELSE Append(d, <<k, v>>)

----------------------------------------------------------------------------
\* Line 81: comp_entries, the entries of the section without its header.
comp_entries(inf) == Tail(<<CompHeader>> \o inf.comps)

\* Line 105: pin_entries.
pin_entries(inf) == Tail(<<PinHeader>> \o inf.pins)

\* Line 123: the entries of net_info, which starts at the NETS header.
net_entries(inf) == <<NetsHeader>> \o inf.nets

\* Lines 89-100: the loop over comp_entries.  st carries the locals.
RECURSIVE ClassifyLoop(_, _, _)
ClassifyLoop(entries, orig_idx, st) ==
    IF orig_idx >= Len(entries) THEN st
    ELSE LET entry == entries[orig_idx + 1] IN
         IF entry.name = NoName
         THEN [st EXCEPT !.err = "AttributeError"]
         ELSE LET named == [st EXCEPT !.names = DictSet(@, entry.name, orig_idx)]
                  next == IF entry.fixed
                          THEN [named EXCEPT !.fixed_id = Append(@, orig_idx),
                                             !.fixed_pos = Append(@, entry.pos)]
                          ELSE [named EXCEPT !.movable_id = Append(@, orig_idx)]
              IN  ClassifyLoop(entries, orig_idx + 1, next)

\* Lines 110-116: the loop over pin_entries.
RECURSIVE PinLoop(_, _, _, _)
PinLoop(entries, offset, total_cells, st) ==
    IF offset >= Len(entries) THEN st
    ELSE LET pin_entry == entries[offset + 1]
             idx == offset + total_cells
             next == [st EXCEPT !.names = DictSet(@, pin_entry.name, idx),
                                !.io_id = Append(@, idx),
                                !.io_pos = Append(@, pin_entry.pos)]
         IN  PinLoop(entries, offset + 1, total_cells, next)

\* Line 129: the name a connection stands for.
Target(conn) == IF conn[1] = "PIN" THEN conn[2] ELSE conn[1]

\* The loop without the clock-net test: only entries without a name pass.
SkippedNoExclusion(net_entry) == net_entry.name = NoName

\* The loop without the match test: only the clock net passes.
SkippedOnlyClock(net_entry) == net_entry.name = ExcludedNet

\* Line 125: the entries the loop passes over.
Skipped(net_entry) == net_entry.name = NoName \/ net_entry.name = ExcludedNet

\* Lines 127-130: the indices of one net; a missing name is a KeyError.
Resolvable(net_entry, names) ==
    \A i \in 1..Len(net_entry.conns) : DictHas(names, Target(net_entry.conns[i]))

Cells(net_entry, names) ==
    [i \in 1..Len(net_entry.conns) |-> DictGet(names, Target(net_entry.conns[i]))]

\* A loop using dict.get and dropping the names it does not find.
RECURSIVE NetLoopDropping(_, _, _)
NetLoopDropping(entries, names, st) ==
    IF entries = <<>> THEN st
    ELSE LET net_entry == Head(entries)
             found == SelectSeq(net_entry.conns, LAMBDA c : DictHas(names, Target(c)))
         IN  IF Skipped(net_entry) THEN NetLoopDropping(Tail(entries), names, st)
             ELSE NetLoopDropping(Tail(entries), names,
                     [st EXCEPT !.nets = Append(@, [i \in 1..Len(found) |->
                                                       DictGet(names, Target(found[i]))])])

\* Lines 123-131: the loop over the net entries.
RECURSIVE NetLoop(_, _, _)
NetLoop(entries, names, st) ==
    IF entries = <<>> THEN st
    ELSE LET net_entry == Head(entries) IN
         IF Skipped(net_entry) THEN NetLoop(Tail(entries), names, st)
         ELSE IF ~Resolvable(net_entry, names)
              THEN [st EXCEPT !.err = "KeyError"]
              ELSE NetLoop(Tail(entries), names,
                           [st EXCEPT !.nets = Append(@, Cells(net_entry, names))])

----------------------------------------------------------------------------
InitParse ==
    /\ ppc = "start"
    /\ \E c \in SeqsUpTo(CompEntries, Min(MaxComps, MaxEntries)) :
       \E p \in SeqsUpTo(PinEntries, Min(MaxPins, MaxEntries - Len(c))) :
       \E hn \in BOOLEAN :
       \E n \in (IF hn THEN NetSeqs(MaxEntries - Len(c) - Len(p)) ELSE {<<>>}) :
       \E dc \in 0..MaxDecl :
       \E dp \in 0..MaxDecl :
          info = [has_nets |-> hn, decl_cells |-> dc, comps |-> c,
                  decl_ios |-> dp, pins |-> p, nets |-> n]
    /\ graph_data = EmptyGraph
    /\ cell_name_to_index = <<>>
    /\ perr = "none"
    /\ hypergraph = NotWritten
    /\ vertex_info = NotWritten
    /\ ipc = "idle"
    /\ src = <<>>
    /\ positions = <<>>
    /\ out_path = [stem |-> "out", suffix |-> ".def"]
    /\ outFile0 = NoFile
    /\ outFile = NoFile
    /\ line_no = 0
    /\ pos_iter = 0
    /\ warned = FALSE

\* Lines 69-73: the NETS markers are searched before anything else.
NetsSection ==
    /\ ppc = "start"
    /\ info.has_nets
    /\ ppc' = "components"
    /\ UNCHANGED <<info, graph_data, cell_name_to_index, perr, hypergraph, vertex_info>>
    /\ UNCHANGED ivars

NetsSectionMissing ==
    /\ ppc = "start"
    /\ ~info.has_nets
    /\ ppc' = "raised"
    /\ perr' = "ValueError"
    /\ UNCHANGED <<info, graph_data, cell_name_to_index, hypergraph, vertex_info>>
    /\ UNCHANGED ivars

\* Lines 76-100: the declared count and the component entries.
Components ==
    /\ ppc = "components"
    /\ LET st == ClassifyLoop(comp_entries(info), 0,
                    [names |-> <<>>, fixed_id |-> <<>>, fixed_pos |-> <<>>,
                     movable_id |-> <<>>, err |-> "none"])
       IN  /\ graph_data' = [graph_data EXCEPT
                                !.total_cell_number = info.decl_cells,
                                !.fixed_id = st.fixed_id,
                                !.fixed_pos = st.fixed_pos,
                                !.movable_id = st.movable_id]
           /\ cell_name_to_index' = st.names
           /\ perr' = st.err
           /\ ppc' = IF st.err = "none" THEN "pins" ELSE "raised"
    /\ UNCHANGED <<info, hypergraph, vertex_info>>
    /\ UNCHANGED ivars

\* Lines 103-116: the declared count and the pin entries.
Pins ==
    /\ ppc = "pins"
    /\ LET st == PinLoop(pin_entries(info), 0, graph_data.total_cell_number,
                    [names |-> cell_name_to_index, io_id |-> <<>>, io_pos |-> <<>>])
       IN  /\ graph_data' = [graph_data EXCEPT
                                !.total_io_number = info.decl_ios,
                                !.io_id = st.io_id,
                                !.io_pos = st.io_pos]
           /\ cell_name_to_index' = st.names
    /\ ppc' = "nets"
    /\ UNCHANGED <<info, perr, hypergraph, vertex_info>>
    /\ UNCHANGED ivars

\* Lines 119-151: the net entries, then GraphData is built and returned.
Nets ==
    /\ ppc = "nets"
    /\ LET st == NetLoop(net_entries(info), cell_name_to_index,
                    [nets |-> <<>>, err |-> "none"])
       IN  /\ graph_data' = [graph_data EXCEPT
                                !.net_cell_index = st.nets,
                                !.fixed_node_num = Len(graph_data.fixed_id)]
           /\ perr' = st.err
           /\ ppc' = IF st.err = "none" THEN "parsed" ELSE "raised"
    /\ UNCHANGED <<info, cell_name_to_index, hypergraph, vertex_info>>
    /\ UNCHANGED ivars

----------------------------------------------------------------------------
\* str(n) of a non-negative index: its decimal digits.
RECURSIVE Str(_)
Str(n) == IF n < 10 THEN <<n>> ELSE Str(n \div 10) \o <<n % 10>>

\* " ".join(map(str, edge)): the words of one line; no word is a blank line.
JoinEdge(edge) == [i \in 1..Len(edge) |-> Str(edge[i])]

\* list.index(v): the first position holding v.
IndexOf(list, v) ==
    CHOOSE i \in 1..Len(list) : list[i] = v /\ \A j \in 1..(i - 1) : list[j] # v

Members(list) == {list[i] : i \in 1..Len(list)}

\* A vertex name as written: a name of the index or f"UNRESOLVED_{vid}".
Named(n) == [s |-> n, id |-> -1]

Unresolved(vid) == [s |-> "UNRESOLVED_", id |-> vid]

\* Lines 178, 187: id_to_name.get(vid, placeholder); the inversion keeps the
\* last key of the dict that holds vid.
HasName(names, vid) == \E i \in 1..Len(names) : names[i][2] = vid

VertexName(names, vid) ==
    IF HasName(names, vid)
    THEN LET last == CHOOSE i \in 1..Len(names) :
                        /\ names[i][2] = vid
                        /\ \A j \in (i + 1)..Len(names) : names[j][2] # vid
         IN  Named(names[last][1])
    ELSE Unresolved(vid)

\* The classification with the two membership tests in the other order.
VertexRowFixedFirst(gd, names, vid) ==
    IF vid \in Members(gd.fixed_id)
    THEN LET pos == gd.fixed_pos[IndexOf(gd.fixed_id, vid)]
         IN  [vid |-> vid, vname |-> VertexName(names, vid), is_fixed |-> 1,
              x |-> pos[1], y |-> pos[2]]
    ELSE IF vid \in Members(gd.io_id)
    THEN LET pos == gd.io_pos[IndexOf(gd.io_id, vid)]
         IN  [vid |-> vid, vname |-> VertexName(names, vid), is_fixed |-> 1,
              x |-> pos[1], y |-> pos[2]]
    ELSE [vid |-> vid, vname |-> VertexName(names, vid), is_fixed |-> 0,
          x |-> 0, y |-> 0]

\* Lines 187-205: the row of one vertex id.
VertexRow(gd, names, vid) ==
    IF vid \in Members(gd.io_id)
    THEN LET pos == gd.io_pos[IndexOf(gd.io_id, vid)]
         IN  [vid |-> vid, vname |-> VertexName(names, vid), is_fixed |-> 1,
              x |-> pos[1], y |-> pos[2]]
    ELSE IF vid \in Members(gd.fixed_id)
    THEN LET pos == gd.fixed_pos[IndexOf(gd.fixed_id, vid)]
         IN  [vid |-> vid, vname |-> VertexName(names, vid), is_fixed |-> 1,
              x |-> pos[1], y |-> pos[2]]
    ELSE [vid |-> vid, vname |-> VertexName(names, vid), is_fixed |-> 0,
          x |-> 0, y |-> 0]

\* Lines 161, 185.
TotalVertices(gd) == gd.total_cell_number + gd.total_io_number

\* Lines 158-170: the three counts, the fixed header, one line per edge.
WriteHypergraph ==
    /\ ppc = "parsed"
    /\ hypergraph' =
          [written |-> TRUE,
           header |-> <<TotalVertices(graph_data), graph_data.total_cell_number,
                        graph_data.total_io_number>>,
           rows |-> [i \in 1..Len(graph_data.net_cell_index) |->
                        JoinEdge(graph_data.net_cell_index[i])]]
    /\ ppc' = "hypergraph_written"
    /\ UNCHANGED <<info, graph_data, cell_name_to_index, perr, vertex_info>>
    /\ UNCHANGED ivars

\* Lines 173-207: the header, one row per id of range(total_vertices).
WriteVertexInfo ==
    /\ ppc = "hypergraph_written"
    /\ vertex_info' =
          [written |-> TRUE,
           header |-> <<"vertex_id", "vertex_name", "is_fixed", "x", "y">>,
           rows |-> [i \in 1..TotalVertices(graph_data) |->
                        VertexRow(graph_data, cell_name_to_index, i - 1)]]
    /\ ppc' = "done"
    /\ UNCHANGED <<info, graph_data, cell_name_to_index, perr, hypergraph>>
    /\ UNCHANGED ivars

NextParse ==
    \/ NetsSection
    \/ NetsSectionMissing
    \/ Components
    \/ Pins
    \/ Nets
    \/ WriteHypergraph
    \/ WriteVertexInfo

SpecParse == InitParse /\ [][NextParse]_vars

(***************************************************************************)
(*                     Properties of the injector                          *)
(***************************************************************************)

\* The number of occurrences of UNPLACED in a line.
RECURSIVE Occurrences(_)
Occurrences(line) ==
    IF line = <<>> THEN 0
    ELSE (IF Head(line).w = "UNPLACED" THEN 1 ELSE 0) + Occurrences(Tail(line))

RECURSIVE TotalOccurrences(_)
TotalOccurrences(lines) ==
    IF lines = <<>> THEN 0
    ELSE Occurrences(Head(lines)) + TotalOccurrences(Tail(lines))

\* The number of PLACED ( x y ) N clauses in a text.
RECURSIVE PlacedClauses(_)
PlacedClauses(lines) ==
    IF lines = <<>> THEN 0
    ELSE Cardinality({i \in 1..Len(Head(lines)) :
                         Head(lines)[i].w = "PLACED" /\ Head(lines)[i].o = "N"})
         + PlacedClauses(Tail(lines))

\* The number of lines among the first k of the source that hold the marker.
MatchingUpTo(k) ==
    Cardinality({i \in 1..k : \E t \in 1..Len(src[i]) : src[i][t].w = "UNPLACED"})

InjectorEnded == ipc \in {"done", "raised"}

\* C1: a source with exactly n occurrences of UNPLACED and n positions: the
\* call ends without error, the output holds no UNPLACED and exactly n PLACED
\* clauses, and every line without the marker is copied unchanged.
C1_RoundTrip ==
    (InjectorEnded /\ TotalOccurrences(src) = Len(positions)) =>
        /\ ipc = "done"
        /\ Len(outFile.lines) = Len(src)
        /\ TotalOccurrences(outFile.lines) = 0
        /\ PlacedClauses(outFile.lines) = Len(positions)
        /\ \A i \in 1..Len(src) :
              (~\E t \in 1..Len(src[i]) : src[i][t].w = "UNPLACED")
                 => outFile.lines[i] = src[i]

\* C2: when the positions run out, the error is raised with the file at the
\* destination as it was before the call: not created, truncated or written.
C2_NoOutputOnExhaustion ==
    ipc = "raised" => outFile = outFile0

\* C3: the k-th line holding UNPLACED is written with the k-th pair: its
\* first UNPLACED becomes PLACED ( int(x) int(y) ) N and nothing else of the
\* line changes; a line without the marker is copied and takes no pair.
C3_EncounterOrder ==
    (ipc \in {"loop", "raised", "done"}) =>
        /\ Len(outFile.lines) = line_no
        /\ ipc # "done" => pos_iter = MatchingUpTo(line_no)
        /\ \A i \in 1..line_no :
              LET line == src[i]
                  out == outFile.lines[i]
                  marks == {t \in 1..Len(line) : line[t].w = "UNPLACED"}
              IN  /\ Len(out) = Len(line)
                  /\ \A t \in 1..Len(line) :
                        IF t \in marks /\ \A u \in marks : t <= u
                        THEN LET pair == positions[MatchingUpTo(i)]
                             IN  /\ out[t].w = "PLACED"
                                 /\ out[t].o = "N"
                                 /\ out[t].x = (IF pair[1] >= 0 THEN pair[1] \div 2 ELSE -((-pair[1]) \div 2))
                                 /\ out[t].y = (IF pair[2] >= 0 THEN pair[2] \div 2 ELSE -((-pair[2]) \div 2))
                        ELSE out[t] = line[t]

\* Two matching lines took two different pairs, the first of them holds the
\* marker twice, and the call has ended.
C3_Witness ==
    /\ ipc = "done"
    /\ Len(src) = 2
    /\ Occurrences(src[1]) = 2
    /\ Occurrences(src[2]) = 1
    /\ Len(positions) = 2
    /\ positions[1] # positions[2]
    /\ pos_iter = 2

(***************************************************************************)
(*                 Properties of the parser and the writers                *)
(***************************************************************************)

\* parse_def_file has returned its GraphData.
Returned == ppc \in {"parsed", "hypergraph_written", "done"}

\* The parse is past the loop over the net entries, or has been aborted.
PastNets == ppc \in {"parsed", "hypergraph_written", "done", "raised"}

\* The name a connection refers to, as section 4.4 of the design states it.
Referred(conn) == IF conn[1] = "PIN" THEN conn[2] ELSE conn[1]

InIndex(n) == \E j \in 1..Len(cell_name_to_index) : cell_name_to_index[j][1] = n

IndexIn(n) ==
    cell_name_to_index[CHOOSE j \in 1..Len(cell_name_to_index) :
                           cell_name_to_index[j][1] = n][2]

\* The NETS records with an extracted name other than the excluded one.
Retained == SelectSeq(info.nets, LAMBDA r : r.name # "" /\ r.name # "clk_i")

Unnamed == SelectSeq(info.nets, LAMBDA r : r.name = "")

\* C4: every index of every net lies in [0, total_vertices), with the counts
\* stored in the returned GraphData.
C4_NetIndicesInRange ==
    Returned =>
        \A i \in 1..Len(graph_data.net_cell_index) :
           \A k \in 1..Len(graph_data.net_cell_index[i]) :
              /\ 0 <= graph_data.net_cell_index[i][k]
              /\ graph_data.net_cell_index[i][k]
                    < graph_data.total_cell_number + graph_data.total_io_number

\* C5: io_id is total_cell_number .. total_cell_number+total_io_number-1 in
\* order, one per PINS entry, the i-th pin's name maps to its index, and
\* every cell index is below every pin index.
C5_PinIndicesContiguous ==
    Returned =>
        /\ Len(graph_data.io_id) = graph_data.total_io_number
        /\ Len(graph_data.io_id) = Len(info.pins)
        /\ \A i \in 1..Len(graph_data.io_id) :
              /\ graph_data.io_id[i] = graph_data.total_cell_number + i - 1
              /\ InIndex(info.pins[i].name)
              /\ IndexIn(info.pins[i].name) = graph_data.total_cell_number + i - 1
        /\ \A i \in 1..Len(graph_data.io_id) :
              /\ \A k \in 1..Len(graph_data.fixed_id) :
                    graph_data.fixed_id[k] < graph_data.io_id[i]
              /\ \A k \in 1..Len(graph_data.movable_id) :
                    graph_data.movable_id[k] < graph_data.io_id[i]

\* Some connection of a named, non-excluded net refers to a name that is not
\* in the name index.
UnresolvedReference ==
    \E i \in 1..Len(Retained) :
       \E k \in 1..Len(Retained[i].conns) : ~InIndex(Referred(Retained[i].conns[k]))

C7_ExcludedNetDropped ==
    /\ Returned =>
          /\ Len(graph_data.net_cell_index) = Len(Retained)
          /\ \A i \in 1..Len(Retained) :
                /\ Len(graph_data.net_cell_index[i]) = Len(Retained[i].conns)
                /\ \A k \in 1..Len(Retained[i].conns) :
                      graph_data.net_cell_index[i][k] = IndexIn(Referred(Retained[i].conns[k]))
    /\ hypergraph.written =>
          /\ Len(hypergraph.rows) = Len(Retained)
          /\ \A i \in 1..Len(Retained) : Len(hypergraph.rows[i]) = Len(Retained[i].conns)

\* The files are written for a DEF whose excluded net, with a connection,
\* stands before a net that is kept.
C7_Witness ==
    /\ ppc = "done"
    /\ Len(info.nets) = 2
    /\ info.nets[1].name = "clk_i"
    /\ Len(info.nets[1].conns) = 1
    /\ info.nets[2].name = "n1"
    /\ Len(hypergraph.rows) = 1

\* C8: no line after the header of the hypergraph file is blank.
C8_NoBlankLine ==
    hypergraph.written =>
        \A i \in 1..Len(hypergraph.rows) : Len(hypergraph.rows[i]) >= 1

\* C9: a NETS record without an extractable name aborts the parse.
C9_UnnamedIsFatal ==
    (PastNets /\ Len(Unnamed) > 0) => ppc = "raised"

\* C9 as the code has it: a NETS record without an extractable name is
\* passed over. It never aborts the parse (a KeyError comes from a named,
\* non-excluded record only), and it adds no entry to net_cell_index.
C9_UnnamedSkipped ==
    /\ perr = "KeyError" => UnresolvedReference
    /\ Returned =>
          Len(graph_data.net_cell_index) + Len(Unnamed) <= Len(info.nets)

\* The parse returned although a record without a name refers to a name that
\* is in no section.
C9_Witness ==
    /\ Returned
    /\ \E i \in 1..Len(Unnamed) :
          \E k \in 1..Len(Unnamed[i].conns) : ~InIndex(Referred(Unnamed[i].conns[k]))

\* C10: one row per id 0 .. total_vertices-1 in ascending order; an id of
\* io_id is fixed at its pin's position, else an id of fixed_id is fixed at
\* its component's position, else the row is 0, (0,0); an id without a name
\* gets the placeholder.
C10_VertexRows ==
    vertex_info.written =>
        /\ Len(vertex_info.rows)
              = graph_data.total_cell_number + graph_data.total_io_number
        /\ \A i \in 1..Len(vertex_info.rows) :
              LET row == vertex_info.rows[i]
                  ios == {k \in 1..Len(graph_data.io_id) : graph_data.io_id[k] = i - 1}
                  fxs == {k \in 1..Len(graph_data.fixed_id) : graph_data.fixed_id[k] = i - 1}
                  nms == {j \in 1..Len(cell_name_to_index) : cell_name_to_index[j][2] = i - 1}
              IN  /\ row.vid = i - 1
                  /\ IF ios # {}
                     THEN /\ row.is_fixed = 1
                          /\ \A k \in ios : <<row.x, row.y>> = graph_data.io_pos[k]
                     ELSE IF fxs # {}
                     THEN /\ row.is_fixed = 1
                          /\ \A k \in fxs : <<row.x, row.y>> = graph_data.fixed_pos[k]
                     ELSE /\ row.is_fixed = 0
                          /\ row.x = 0
                          /\ row.y = 0
                  /\ IF nms = {}
                     THEN row.vname = [s |-> "UNRESOLVED_", id |-> i - 1]
                     ELSE /\ row.vname.id = -1
                          /\ \E j \in nms : row.vname.s = cell_name_to_index[j][1]

\* The vertex file is written where one id is a pin and a fixed component
\* with different positions, one id is a movable cell and one id has no name.
C10_Witness ==
    /\ ppc = "done"
    /\ \E v \in 0..(graph_data.total_cell_number + graph_data.total_io_number - 1) :
          /\ \E k \in 1..Len(graph_data.io_id) : graph_data.io_id[k] = v
          /\ \E k \in 1..Len(graph_data.fixed_id) : graph_data.fixed_id[k] = v
    /\ \E i \in 1..Len(vertex_info.rows) : vertex_info.rows[i].is_fixed = 0
    /\ \E i \in 1..Len(vertex_info.rows) : vertex_info.rows[i].vname.s = "UNRESOLVED_"

====
